---- MODULE Spec2Model ----
(***************************************************************************)
(* OcrService.extractFromFile (ocr.service.ts) and its collaborators:      *)
(* PdfTextExtractor, PdfRasterizer, ImagePreprocessor, TempFileManager,    *)
(* the p-limit pool and the retry/timeout wrapper runOcrWithRetries.       *)
(* One extractFromFile call is modelled; every await of the code is an     *)
(* action boundary, so page jobs interleave exactly at the code's awaits.  *)
(* Strings are sequences of one-character strings.                         *)
(***************************************************************************)
EXTENDS Integers, Sequences, FiniteSets, TLC

\* ---------------------------------------------------------------- bounds
MaxPages == 2
MaxTextLen == 3
MaxThreshold == 3
MaxDirs == 2
MaxCalls == 2
MaxItems == 5

\* ------------------------------------------------------ program constants
DEFAULT_CONCURRENCY == 4
DEFAULT_DPI == 300
DEFAULT_DIGITAL_TEXT_THRESHOLD == 20
DEFAULT_OCR_TIMEOUT_MS == 120000
retries == 2
Null == -1

Pages == 1..MaxPages

\* ------------------------------------------------------------------ text
Whitespace == {" ", "\n"}

RECURSIVE CollapseWs(_)
\* s.replace(/\s+/g, ' '): every maximal run of whitespace becomes one space
CollapseWs(s) ==
  IF s = <<>> THEN <<>>
  ELSE IF Head(s) \in Whitespace
       THEN IF Len(s) > 1 /\ s[2] \in Whitespace
            THEN CollapseWs(Tail(s))
            ELSE <<" ">> \o CollapseWs(Tail(s))
       ELSE <<Head(s)>> \o CollapseWs(Tail(s))

RECURSIVE TrimLeft(_)
TrimLeft(s) ==
  IF s # <<>> /\ Head(s) \in Whitespace THEN TrimLeft(Tail(s)) ELSE s

RECURSIVE TrimRight(_)
TrimRight(s) ==
  IF s # <<>> /\ s[Len(s)] \in Whitespace
  THEN TrimRight(SubSeq(s, 1, Len(s) - 1))
  ELSE s

\* String.prototype.trim
Trim(s) == TrimRight(TrimLeft(s))

\* text.replace(/\s+/g, ' ').trim()
CleanText(s) == Trim(CollapseWs(s))

\* --------------------------------------------------- PdfTextExtractor
\* A page's textContent.items: text items carry str, marked content does not.
TextItem(s) == [hasStr |-> TRUE, str |-> s]
MarkedContent == [hasStr |-> FALSE, str |-> <<>>]

BlankPage == <<>>
NoisyPage ==
  <<MarkedContent, MarkedContent, MarkedContent, MarkedContent,
    TextItem(<<"w", "x", "y", "z">>)>>
PageContents == {BlankPage, NoisyPage}

RECURSIVE ConcatItems(_)
\* extractedText += item.str + ' ' for every item with a str
ConcatItems(items) ==
  IF items = <<>> THEN <<>>
  ELSE (IF Head(items).hasStr THEN Head(items).str \o <<" ">> ELSE <<>>)
       \o ConcatItems(Tail(items))

RECURSIVE TotalTokenLength(_)
TotalTokenLength(items) ==
  IF items = <<>> THEN 0
  ELSE (IF Head(items).hasStr THEN Len(Head(items).str) ELSE 0)
       + TotalTokenLength(Tail(items))

RECURSIVE TokenCount(_)
TokenCount(items) ==
  IF items = <<>> THEN 0
  ELSE (IF Head(items).hasStr THEN 1 ELSE 0) + TokenCount(Tail(items))

\* (totalTokenLength / tokenCount || 0) > 3, in integers; 0/0 is NaN, NaN || 0 = 0
AvgTokenLengthAbove3(items) ==
  TokenCount(items) > 0 /\ TotalTokenLength(items) > 3 * TokenCount(items)

extractPageText(items, digitalTextThreshold) ==
  [text |-> CleanText(ConcatItems(items)),
   isDigital |-> \/ TotalTokenLength(items) >= digitalTextThreshold
                 \/ (Len(items) > 4 /\ AvgTokenLengthAbove3(items))]

\* ------------------------------------------------------- OCR adapter
\* what ocrAdapter.recognize can resolve with
OcrOutputs ==
  {[text |-> <<"o">>, confidence |-> 90],
   [text |-> <<"p", " ", "q">>, confidence |-> Null]}

\* ------------------------------------------------ effective options
OrDefault(v, d) == IF v = 0 THEN d ELSE v

Fallbacks == {"when-empty", "always", "prefer-longer"}

\* the steps of the progress events
Steps ==
  {"Initializing", "PDF Loaded", "Processing", "Rasterizing for OCR",
   "Preprocessing Image", "Running OCR", "Completed", "Finished"}

\* a progressCallback is given by the steps on which it throws: the default
\* () => {} and a sink that never throws, or one that fails on one step
Callbacks == {{}} \cup {{s} : s \in Steps}

\* ------------------------------------------------- page-job decisions
needsOcrWithoutPreferLonger(isDigital, textLen, threshold, ocrFallback) ==
  \/ (~isDigital /\ ocrFallback # "always")
  \/ (isDigital /\ textLen < threshold /\ ocrFallback # "when-empty")
  \/ ocrFallback = "always"

needsOcrIgnoresDigital(isDigital, textLen, threshold, ocrFallback) ==
  \/ ~isDigital
  \/ textLen < threshold
  \/ ocrFallback \in {"always", "prefer-longer"}

needsOcr(isDigital, textLen, threshold, ocrFallback) ==
  \/ (~isDigital /\ ocrFallback # "always")
  \/ (isDigital /\ textLen < threshold /\ ocrFallback # "when-empty")
  \/ ocrFallback = "always"
  \/ ocrFallback = "prefer-longer"

getCleanerText(digitalText, ocrText) ==
  LET cleanDigital == CleanText(digitalText)
      cleanOcr == CleanText(ocrText)
  IN IF /\ 10 * Len(cleanDigital) > 8 * Len(cleanOcr)
        /\ Len(cleanDigital) > DEFAULT_DIGITAL_TEXT_THRESHOLD
     THEN cleanDigital
     ELSE cleanOcr

\* pageText = this.getCleanerText(digitalText, ocrText);
\* confidence = pageText === ocrText ? 'ocr' : 'high'
preferLonger(digitalText, ocrText) ==
  LET pageText == getCleanerText(digitalText, ocrText)
  IN [pageText |-> pageText,
      confidence |-> IF pageText = ocrText THEN "ocr" ELSE "high"]

\* the statements after runOcrWithRetries has returned ocrText
afterOcr(ocrFallback, digitalText, ocrText) ==
  IF ocrFallback = "prefer-longer"
  THEN preferLonger(digitalText, ocrText)
  ELSE [pageText |-> ocrText, confidence |-> "ocr"]

\* ------------------------------------------------------------- merge
RECURSIVE InsertByPageNumber(_, _)
InsertByPageNumber(r, sorted) ==
  IF sorted = <<>> THEN <<r>>
  ELSE IF r.pageNumber < Head(sorted).pageNumber
       THEN <<r>> \o sorted
       ELSE <<Head(sorted)>> \o InsertByPageNumber(r, Tail(sorted))

NoSort(rs) == rs

RECURSIVE SortByPageNumber(_)
\* results.sort((a, b) => a.pageNumber - b.pageNumber): a stable sort
SortByPageNumber(rs) ==
  IF rs = <<>> THEN <<>>
  ELSE InsertByPageNumber(rs[Len(rs)], SortByPageNumber(SubSeq(rs, 1, Len(rs) - 1)))

Separator == <<"\n", "\n">>

RECURSIVE JoinTexts(_)
\* results.map((p) => p.text).join('\n\n')
JoinTexts(rs) ==
  IF rs = <<>> THEN <<>>
  ELSE IF Len(rs) = 1 THEN rs[1].text
       ELSE rs[1].text \o Separator \o JoinTexts(Tail(rs))

\* ============================================================== state
VARIABLES
  options,     \* the caller's ExtractOptions: a record of the supplied options
  call,        \* extractFromFile's own position, completion and thrown error
  numPages,    \* what getNumPages returned (0 before it returns)
  job,         \* per page: the page job's position and local variables
  results,     \* const results: PageResult[]
  errors,      \* const errors: ExtractError[]
  counters,    \* let pagesOcrd, digitalPages, scannedPages
  fs,          \* the job temp directory and the page images in it
  calls,       \* how often each collaborator has been invoked
  ret,         \* fullText and stats of the ExtractResult being returned
  progress,    \* per page: the last event handed to progressCallback
  decision,    \* one evaluation of the needsOcr expression on given inputs
  merge,       \* one evaluation of the statements that follow a successful OCR
  dirs,        \* TempFileManager: job directories and cleanupJobTempDir calls
  page,        \* one evaluation of PdfTextExtractor.extractPageText
  resolved,    \* one evaluation of the effectiveOptions initializer
  pool,        \* the recognize invocations of one call's page jobs
  shared       \* two extractFromFile calls on one OcrService and its adapter

vars ==
  <<options, call, numPages, job, results, errors, counters, fs, calls, ret,
    progress, decision, merge, dirs, page, resolved, pool, shared>>

\* the variables of one extractFromFile call
callVars ==
  <<call, numPages, job, results, errors, counters, fs, calls, ret, progress>>

\* the variables of the single evaluations
evaluations == <<decision, merge, dirs, page, resolved, pool, shared>>

\* options?.x is undefined for an option the caller omitted
Supplied(x) == x \in DOMAIN options

\* x: options?.x || default; an array and a policy name are truthy, 0 is not
effectiveOptions ==
  [languages |-> IF Supplied("languages") THEN options.languages ELSE <<"eng">>,
   concurrency |->
     IF Supplied("concurrency")
     THEN OrDefault(options.concurrency, DEFAULT_CONCURRENCY)
     ELSE DEFAULT_CONCURRENCY,
   dpi |-> IF Supplied("dpi") THEN OrDefault(options.dpi, DEFAULT_DPI)
           ELSE DEFAULT_DPI,
   digitalTextThreshold |->
     IF Supplied("digitalTextThreshold")
     THEN OrDefault(options.digitalTextThreshold, DEFAULT_DIGITAL_TEXT_THRESHOLD)
     ELSE DEFAULT_DIGITAL_TEXT_THRESHOLD,
   ocrFallback |->
     IF Supplied("ocrFallback") THEN options.ocrFallback ELSE "when-empty",
   timeoutMs |->
     IF Supplied("timeoutMs")
     THEN OrDefault(options.timeoutMs, DEFAULT_OCR_TIMEOUT_MS)
     ELSE DEFAULT_OCR_TIMEOUT_MS,
   progressCallback |->
     IF Supplied("progressCallback") THEN options.progressCallback ELSE {},
   debug |-> IF Supplied("debug") THEN options.debug ELSE FALSE]

\* effectiveOptions.progressCallback(event) throws
CallbackThrows(step) == step \in effectiveOptions.progressCallback

NoError == [origin |-> "none", attempt |-> 0]
Error(origin, attempt) == [origin |-> origin, attempt |-> attempt]
CallbackError == Error("progressCallback", 0)

NewJob ==
  [st |-> "none", digitalText |-> <<>>, isDigital |-> FALSE, needsOcr |-> FALSE,
   pageText |-> <<>>, ocrUsed |-> FALSE, ocrConfidence |-> Null,
   confidence |-> "low", i |-> 0, ocrText |-> <<>>, error |-> NoError,
   removing |-> FALSE]

NoResult ==
  [fullText |-> <<>>,
   stats |-> [pagesOcrd |-> 0, concurrency |-> 0, digitalPages |-> 0,
              scannedPages |-> 0]]

NoDecision ==
  [isDigital |-> FALSE, textLen |-> 0, threshold |-> 0,
   ocrFallback |-> "when-empty", done |-> FALSE, needsOcr |-> FALSE]

\* ---------------------------------------------------- progress events
\* percent is a fraction num/den; the weights are the code's factors in tenths
NoEvent == [step |-> "none", percent |-> [num |-> 0, den |-> 1]]

CompletedBelowRunningOcr ==
  [s \in {"Processing", "Rasterizing for OCR", "Preprocessing Image",
          "Running OCR", "Completed"} |->
     CASE s = "Processing" -> 1
       [] s = "Rasterizing for OCR" -> 2
       [] s = "Preprocessing Image" -> 4
       [] s = "Running OCR" -> 6
       [] s = "Completed" -> 5]

Weight ==
  [s \in {"Processing", "Rasterizing for OCR", "Preprocessing Image",
          "Running OCR", "Completed"} |->
     CASE s = "Processing" -> 1
       [] s = "Rasterizing for OCR" -> 2
       [] s = "Preprocessing Image" -> 4
       [] s = "Running OCR" -> 6
       [] s = "Completed" -> 10]

\* { page: pageNumber, step, percent: (pageNumber / numPages) * 100 * weight }
PageEvent(pageNumber, step) ==
  [step |-> step,
   percent |-> [num |-> pageNumber * 100 * Weight[step], den |-> numPages * 10]]

FixedEvent(step, percent) ==
  [step |-> step, percent |-> [num |-> percent, den |-> 1]]

\* effectiveOptions.progressCallback(event) is invoked with an event of page p
Emitted(p, event) == [progress EXCEPT ![p] = event]
Emit(p, event) == progress' = Emitted(p, event)

NoMerge ==
  [digitalText |-> <<>>, ocrText |-> <<>>, done |-> FALSE, pageText |-> <<>>,
   confidence |-> "low"]

NoDirs == <<>>

NoPage ==
  [items |-> <<>>, digitalTextThreshold |-> 0, done |-> FALSE, text |-> <<>>,
   isDigital |-> FALSE]

NoResolved == [done |-> FALSE]

NoPool == [concurrency |-> 0, attempts |-> <<>>, abandoned |-> 0, settled |-> FALSE]

NoShared == <<>>

\* the state right after createJobTempDir and the construction of
\* effectiveOptions, results, errors and the counters
Entered ==
  /\ call = [pc |-> "start", completion |-> "none", thrown |-> NoError,
             removing |-> FALSE]
  /\ numPages = 0
  /\ job = [p \in Pages |-> NewJob]
  /\ results = <<>>
  /\ errors = <<>>
  /\ counters = [pagesOcrd |-> 0, digitalPages |-> 0, scannedPages |-> 0]
  /\ fs = [dirExists |-> TRUE, raster |-> {}]
  /\ calls = [cleanupJobTempDir |-> 0, closeWorker |-> 0]
  /\ ret = NoResult
  /\ progress = [p \in 0..MaxPages |-> NoEvent]

Init ==
  /\ options \in [concurrency : {1, 2},
                  digitalTextThreshold : {0},
                  ocrFallback : Fallbacks,
                  progressCallback : Callbacks,
                  debug : BOOLEAN]
  /\ Entered
  /\ decision = NoDecision
  /\ merge = NoMerge
  /\ dirs = NoDirs
  /\ page = NoPage
  /\ resolved = NoResolved
  /\ pool = NoPool
  /\ shared = NoShared

\* a job that ended in its catch block: its locals are gone
Ended == [NewJob EXCEPT !.st = "done"]

\* a job whose promise rejected with e
Rejected(e) == [NewJob EXCEPT !.st = "rejected", !.error = e]

\* a job through which exception e is propagating: its locals are dead
Throwing(e) == [NewJob EXCEPT !.error = e]

\* ----------------------------------------------------- page results
OkResult(p, j) ==
  [pageNumber |-> p, isDigital |-> j.isDigital, ocrUsed |-> j.ocrUsed,
   text |-> j.pageText, charCount |-> Len(j.pageText),
   ocrConfidence |-> j.ocrConfidence, confidence |-> j.confidence]

FailedResultKeepsConfidence(p) ==
  [pageNumber |-> p, isDigital |-> FALSE, ocrUsed |-> FALSE, text |-> <<>>,
   charCount |-> 0, ocrConfidence |-> 0, confidence |-> "low"]

FailedResult(p) ==
  [pageNumber |-> p, isDigital |-> FALSE, ocrUsed |-> FALSE, text |-> <<>>,
   charCount |-> 0, ocrConfidence |-> Null, confidence |-> "low"]

ExtractError(p, e) == [page |-> p, message |-> e]

\* the page job's catch block
PageCatch(p, e) ==
  /\ errors' = Append(errors, ExtractError(p, e))
  /\ results' = Append(results, FailedResult(p))

\* results.push({...}) followed by the 'Completed' progress event; a throwing
\* callback lands in the catch block after the push
PushCompleted(p, j, cbThrows) ==
  /\ Emit(p, PageEvent(p, "Completed"))
  /\ IF cbThrows
     THEN /\ errors' = Append(errors, ExtractError(p, CallbackError))
          /\ results' = results \o <<OkResult(p, j), FailedResult(p)>>
     ELSE /\ errors' = errors
          /\ results' = Append(results, OkResult(p, j))

\* ---------------------------------------------------------- p-limit
Running == {"extract", "raster", "rcheck", "preproc", "ocr", "backoff", "pcleanup"}

activeCount == Cardinality({p \in Pages : job[p].st \in Running})

limitAllowsOneMore(active, concurrency) == active <= concurrency

limitAllows(active, concurrency) == active < concurrency

\* ------------------------------------------------- outer try/finally
EnterFinallyClosesOnlyWithCleanup(completion, thrown) ==
  IF effectiveOptions.debug
  THEN /\ call' = [pc |-> "settled", completion |-> completion,
                   thrown |-> thrown, removing |-> FALSE]
       /\ UNCHANGED calls
  ELSE /\ call' = [pc |-> "cleanup", completion |-> completion,
                   thrown |-> thrown, removing |-> fs.dirExists]
       /\ calls' = [calls EXCEPT !.cleanupJobTempDir = @ + 1]

\* leaving the try block: the finally block starts cleanupJobTempDir(jobTempDir)
\* unless debug, and closeWorker otherwise
EnterFinally(completion, thrown) ==
  IF effectiveOptions.debug
  THEN /\ call' = [pc |-> "closeWorker", completion |-> completion,
                   thrown |-> thrown, removing |-> FALSE]
       /\ calls' = [calls EXCEPT !.closeWorker = @ + 1]
  ELSE /\ call' = [pc |-> "cleanup", completion |-> completion,
                   thrown |-> thrown, removing |-> fs.dirExists]
       /\ calls' = [calls EXCEPT !.cleanupJobTempDir = @ + 1]

\* catch (error) { errors.push({ message: `Fatal error: ...` }); throw error; }
FatalCatch(e) ==
  /\ errors' = Append(errors, ExtractError(0, e))
  /\ EnterFinally("throw", e)

\* 'Initializing' progress event, then getNumPages is called
Begin ==
  /\ call.pc = "start"
  /\ Emit(0, FixedEvent("Initializing", 0))
  /\ LET cbThrows == CallbackThrows("Initializing") IN
       IF cbThrows
       THEN FatalCatch(CallbackError)
       ELSE /\ call' = [call EXCEPT !.pc = "getNumPages"]
            /\ UNCHANGED <<errors, calls>>
  /\ UNCHANGED <<options, numPages, job, results, counters, fs, ret, evaluations>>

GetNumPagesFailsSwallowed ==
  /\ call.pc = "getNumPages"
  /\ errors' = Append(errors, ExtractError(0, Error("getNumPages", 0)))
  /\ EnterFinally("return", NoError)
  /\ UNCHANGED <<options, numPages, job, results, counters, fs, ret, progress,
                 evaluations>>

\* getNumPages rejects: the catch block rethrows
GetNumPagesFails ==
  /\ call.pc = "getNumPages"
  /\ FatalCatch(Error("getNumPages", 0))
  /\ UNCHANGED <<options, numPages, job, results, counters, fs, ret, progress,
                 evaluations>>

\* getNumPages resolves: 'PDF Loaded' event, then every page job is handed
\* to the pool and Promise.all is awaited
GetNumPagesReturns ==
  /\ call.pc = "getNumPages"
  /\ \E n \in 1..MaxPages : LET cbThrows == CallbackThrows("PDF Loaded") IN
       /\ numPages' = n
       /\ Emit(0, FixedEvent("PDF Loaded", 5))
       /\ IF cbThrows
          THEN /\ FatalCatch(CallbackError)
               /\ UNCHANGED job
          ELSE /\ call' = [call EXCEPT !.pc = "awaitAll"]
               /\ job' = [p \in Pages |->
                            IF p <= n THEN [job[p] EXCEPT !.st = "queued"]
                            ELSE job[p]]
               /\ UNCHANGED <<errors, calls>>
  /\ UNCHANGED <<options, results, counters, fs, ret, evaluations>>

\* ------------------------------------------------------- page job
\* the end of a page job: the catch block for a pending exception, otherwise
\* results.push and the 'Completed' event; emitted is progress after the
\* events of the current step
FinishPage(p, j, emitted) ==
  IF j.error # NoError
  THEN /\ PageCatch(p, j.error)
       /\ job' = [job EXCEPT ![p] = Ended]
       /\ progress' = emitted
  ELSE LET cbThrows == CallbackThrows("Completed") IN
         /\ PushCompleted(p, j, cbThrows)
         /\ job' = [job EXCEPT ![p] =
                      IF cbThrows THEN Ended
                      ELSE [j EXCEPT !.st = "done", !.removing = FALSE]]

\* the inner finally: await cleanupJobTempDir(path.dirname(imageTempPath)),
\* which is the job temp directory itself, unless debug
LeaveOcrBranch(p, j, emitted) ==
  IF effectiveOptions.debug
  THEN /\ FinishPage(p, j, emitted)
       /\ UNCHANGED calls
  ELSE /\ job' = [job EXCEPT ![p] =
                    [j EXCEPT !.st = "pcleanup", !.removing = fs.dirExists]]
       /\ calls' = [calls EXCEPT !.cleanupJobTempDir = @ + 1]
       /\ progress' = emitted
       /\ UNCHANGED <<results, errors>>

\* fs.remove(jobTempDir) finished; a removal error is swallowed and logged
Removed(removing, removedOk) ==
  IF removing /\ removedOk
  THEN [dirExists |-> FALSE, raster |-> {}]
  ELSE fs

\* the pool starts its oldest queued job when a slot is free; the job emits
\* 'Processing' outside its try block and calls extractPageText
JobStart(p) ==
  /\ job[p].st = "queued"
  /\ \A q \in Pages : q < p => job[q].st # "queued"
  /\ limitAllows(activeCount, effectiveOptions.concurrency)
  /\ Emit(p, PageEvent(p, "Processing"))
  /\ LET cbThrows == CallbackThrows("Processing") IN
       IF cbThrows
       THEN job' = [job EXCEPT ![p] = Rejected(CallbackError)]
       ELSE job' = [job EXCEPT ![p].st = "extract"]
  /\ UNCHANGED <<options, call, numPages, results, errors, counters, fs, calls,
                 ret, evaluations>>

ExtractThrowsUncaught(p) ==
  /\ job[p].st = "extract"
  /\ job' = [job EXCEPT ![p] = Rejected(Error("extractPageText", 0))]
  /\ UNCHANGED <<options, call, numPages, results, errors, counters, fs, calls,
                 ret, progress, evaluations>>

\* extractPageText rejects: the page job's catch block records the failure
ExtractThrows(p) ==
  /\ job[p].st = "extract"
  /\ PageCatch(p, Error("extractPageText", 0))
  /\ job' = [job EXCEPT ![p] = Ended]
  /\ UNCHANGED <<options, call, numPages, counters, fs, calls, ret, progress,
                 evaluations>>

\* extractPageText resolves; needsOcr is decided; either the digital result is
\* pushed or rasterizePageToImage is called (its first step is ensureDir)
ExtractReturns(p) ==
  /\ job[p].st = "extract"
  /\ \E items \in PageContents :
       LET r == extractPageText(items, effectiveOptions.digitalTextThreshold)
           n == needsOcr(r.isDigital, Len(r.text),
                         effectiveOptions.digitalTextThreshold,
                         effectiveOptions.ocrFallback)
           j == [job[p] EXCEPT !.digitalText = r.text, !.isDigital = r.isDigital,
                               !.pageText = r.text, !.needsOcr = n,
                               !.confidence = IF r.isDigital THEN "high" ELSE "low"]
       IN IF n
          THEN /\ counters' = [counters EXCEPT !.pagesOcrd = @ + 1,
                                                !.scannedPages = @ + 1]
               /\ Emit(p, PageEvent(p, "Rasterizing for OCR"))
               /\ IF CallbackThrows("Rasterizing for OCR")
                  THEN /\ PageCatch(p, CallbackError)
                       /\ job' = [job EXCEPT ![p] = Ended]
                       /\ UNCHANGED <<fs, calls>>
                  ELSE /\ job' = [job EXCEPT ![p] = [j EXCEPT !.st = "raster"]]
                       /\ fs' = [fs EXCEPT !.dirExists = TRUE]
                       /\ UNCHANGED <<results, errors, calls>>
          ELSE /\ counters' = [counters EXCEPT !.digitalPages = @ + 1]
               /\ job' = [job EXCEPT ![p] =
                            IF CallbackThrows("Completed") THEN Ended ELSE [j EXCEPT !.st = "done"]]
               /\ PushCompleted(p, j, CallbackThrows("Completed"))
               /\ UNCHANGED <<fs, calls>>
  /\ UNCHANGED <<options, call, numPages, ret, evaluations>>

\* poppler.pdfToCairo settles: it wrote page-<n>.png, wrote nothing, or threw
RasterRender(p) ==
  /\ job[p].st = "raster"
  /\ \E outcome \in {"written", "silent", "error"} :
       CASE outcome = "written" ->
              /\ fs.dirExists
              /\ fs' = [fs EXCEPT !.raster = @ \cup {p}]
              /\ job' = [job EXCEPT ![p].st = "rcheck"]
              /\ UNCHANGED <<results, errors, calls, progress>>
         [] outcome = "silent" ->
              /\ job' = [job EXCEPT ![p].st = "rcheck"]
              /\ UNCHANGED <<results, errors, calls, fs, progress>>
         [] outcome = "error" ->
              /\ LeaveOcrBranch(p, Throwing(Error("pdfToCairo", 0)), progress)
              /\ UNCHANGED fs
  /\ UNCHANGED <<options, call, numPages, counters, ret, evaluations>>

RasterCheckTrustsRender(p) ==
  /\ job[p].st = "rcheck"
  /\ LET cbThrows == CallbackThrows("Preprocessing Image") IN
       IF cbThrows
       THEN LeaveOcrBranch(p, Throwing(CallbackError),
                           Emitted(p, PageEvent(p, "Preprocessing Image")))
       ELSE /\ job' = [job EXCEPT ![p].st = "preproc"]
            /\ Emit(p, PageEvent(p, "Preprocessing Image"))
            /\ UNCHANGED <<results, errors, calls>>
  /\ UNCHANGED <<options, call, numPages, counters, fs, ret, evaluations>>

\* fs.pathExists(imagePath) settles: a missing page-<n>.png is an error; on
\* success the path is returned, 'Preprocessing Image' is emitted and
\* preprocessImage is called
RasterCheck(p) ==
  /\ job[p].st = "rcheck"
  /\ IF p \in fs.raster
     THEN LET cbThrows == CallbackThrows("Preprocessing Image") IN
            IF cbThrows
            THEN LeaveOcrBranch(p, Throwing(CallbackError),
                                Emitted(p, PageEvent(p, "Preprocessing Image")))
            ELSE /\ job' = [job EXCEPT ![p].st = "preproc"]
                 /\ Emit(p, PageEvent(p, "Preprocessing Image"))
                 /\ UNCHANGED <<results, errors, calls>>
     ELSE LeaveOcrBranch(p, Throwing(Error("rasterizePageToImage", 0)), progress)
  /\ UNCHANGED <<options, call, numPages, counters, fs, ret, evaluations>>

lastAttemptOffByOne(i) == i = retries + 1

\* if (i === retries) throw error
lastAttempt(i) == i = retries

\* preprocessImage settles: sharp read the rasterized image and wrote the
\* processed one, or threw; on success 'Running OCR' is emitted and
\* runOcrWithRetries makes its first recognize call
PreprocessDone(p) ==
  /\ job[p].st = "preproc"
  /\ \E ok \in BOOLEAN : LET cbThrows == CallbackThrows("Running OCR") IN
       IF ok
       THEN /\ p \in fs.raster
            /\ fs.dirExists
            /\ UNCHANGED fs
            /\ IF cbThrows
               THEN LeaveOcrBranch(p, Throwing(CallbackError),
                                   Emitted(p, PageEvent(p, "Running OCR")))
               ELSE /\ job' = [job EXCEPT ![p] = [@ EXCEPT !.st = "ocr", !.i = 0]]
                    /\ Emit(p, PageEvent(p, "Running OCR"))
                    /\ UNCHANGED <<results, errors, calls>>
       ELSE LeaveOcrBranch(p, Throwing(Error("preprocessImage", 0)), progress)
  /\ UNCHANGED <<options, call, numPages, counters, fs, ret, evaluations>>

\* Promise.race is won by recognize resolving
OcrResolves(p) ==
  /\ job[p].st = "ocr"
  /\ \E out \in OcrOutputs :
       LET chosen == afterOcr(effectiveOptions.ocrFallback,
                              job[p].digitalText, out.text)
       IN LeaveOcrBranch(p, [job[p] EXCEPT
            !.ocrUsed = TRUE, !.ocrConfidence = out.confidence,
            !.ocrText = out.text, !.pageText = chosen.pageText, !.i = 0,
            !.confidence = chosen.confidence],
            progress)
  /\ UNCHANGED <<options, call, numPages, counters, fs, ret, evaluations>>

\* Promise.race is won by recognize rejecting or by the timeout
OcrAttemptFails(p) ==
  /\ job[p].st = "ocr"
  /\ \E origin \in {"recognize", "timeout"} :
       IF lastAttempt(job[p].i)
       THEN LeaveOcrBranch(p, Throwing(Error(origin, job[p].i)), progress)
       ELSE /\ job' = [job EXCEPT ![p].st = "backoff"]
            /\ UNCHANGED <<results, errors, calls, progress>>
  /\ UNCHANGED <<options, call, numPages, counters, fs, ret, evaluations>>

BackoffDoneRasterizesAgain(p) ==
  /\ job[p].st = "backoff"
  /\ job' = [job EXCEPT ![p] = [@ EXCEPT !.st = "raster", !.i = @ + 1]]
  /\ UNCHANGED <<options, call, numPages, results, errors, counters, fs, calls,
                 ret, progress, evaluations>>

BackoffDoneKeepsAttempt(p) ==
  /\ job[p].st = "backoff"
  /\ job' = [job EXCEPT ![p].st = "ocr"]
  /\ UNCHANGED <<options, call, numPages, results, errors, counters, fs, calls,
                 ret, progress, evaluations>>

\* the backoff timer fires: i++ and the next recognize call
BackoffDone(p) ==
  /\ job[p].st = "backoff"
  /\ job' = [job EXCEPT ![p] = [@ EXCEPT !.st = "ocr", !.i = @ + 1]]
  /\ UNCHANGED <<options, call, numPages, results, errors, counters, fs, calls,
                 ret, progress, evaluations>>

\* the inner finally's cleanupJobTempDir settles; the job goes on to its end
PageCleanupDone(p) ==
  /\ job[p].st = "pcleanup"
  /\ \E removedOk \in BOOLEAN : fs' = Removed(job[p].removing, removedOk)
  /\ FinishPage(p, job[p], progress)
  /\ UNCHANGED <<options, call, numPages, counters, calls, ret, evaluations>>

\* ------------------------------------------------- fan-in and exit
\* Promise.all resolves: sort, join, 'Finished' event, return
AllPagesFulfilled ==
  /\ call.pc = "awaitAll"
  /\ \A p \in 1..numPages : job[p].st = "done"
  /\ results' = SortByPageNumber(results)
  /\ Emit(numPages, FixedEvent("Finished", 100))
  /\ LET cbThrows == CallbackThrows("Finished") IN
       IF cbThrows
       THEN /\ FatalCatch(CallbackError)
            /\ UNCHANGED ret
       ELSE /\ ret' = [fullText |-> JoinTexts(results'),
                       stats |-> [pagesOcrd |-> counters.pagesOcrd,
                                  concurrency |-> effectiveOptions.concurrency,
                                  digitalPages |-> counters.digitalPages,
                                  scannedPages |-> counters.scannedPages]]
            /\ EnterFinally("return", NoError)
            /\ UNCHANGED errors
  /\ UNCHANGED <<options, numPages, job, counters, fs, evaluations>>

\* Promise.all rejects as soon as one page promise has rejected
PromiseAllRejects ==
  /\ call.pc = "awaitAll"
  /\ \E p \in 1..numPages :
       /\ job[p].st = "rejected"
       /\ FatalCatch(job[p].error)
  /\ UNCHANGED <<options, numPages, job, results, counters, fs, ret, progress,
                 evaluations>>

\* the outer finally's cleanupJobTempDir settles; closeWorker is called
CleanupDone ==
  /\ call.pc = "cleanup"
  /\ \E removedOk \in BOOLEAN : fs' = Removed(call.removing, removedOk)
  /\ call' = [call EXCEPT !.pc = "closeWorker"]
  /\ calls' = [calls EXCEPT !.closeWorker = @ + 1]
  /\ UNCHANGED <<options, numPages, job, results, errors, counters, ret,
                 progress, evaluations>>

\* closeWorker settles: extractFromFile returns or throws
CloseWorkerDone ==
  /\ call.pc = "closeWorker"
  /\ call' = [call EXCEPT !.pc = "settled"]
  /\ UNCHANGED <<options, numPages, job, results, errors, counters, fs, calls,
                 ret, progress, evaluations>>

Next ==
  \/ Begin
  \/ GetNumPagesFails
  \/ GetNumPagesReturns
  \/ \E p \in Pages : JobStart(p)
  \/ \E p \in Pages : ExtractThrows(p)
  \/ \E p \in Pages : ExtractReturns(p)
  \/ \E p \in Pages : RasterRender(p)
  \/ \E p \in Pages : RasterCheck(p)
  \/ \E p \in Pages : PreprocessDone(p)
  \/ \E p \in Pages : OcrResolves(p)
  \/ \E p \in Pages : OcrAttemptFails(p)
  \/ \E p \in Pages : BackoffDone(p)
  \/ \E p \in Pages : PageCleanupDone(p)
  \/ AllPagesFulfilled
  \/ PromiseAllRejects
  \/ CleanupDone
  \/ CloseWorkerDone

Spec == Init /\ [][Next]_vars

\* ------------------------------------------- a recognize that may hang
\* Every step but the resolution of recognize: the awaited collaborators
\* return or throw, timers fire (the timeout of Promise.race among them, which
\* is what OcrAttemptFails takes when recognize does not settle) and
\* microtasks run.  OcrResolves is left out: recognize need never complete.
Timely ==
  \/ Begin
  \/ GetNumPagesFails
  \/ GetNumPagesReturns
  \/ \E p \in Pages : JobStart(p)
  \/ \E p \in Pages : ExtractThrows(p)
  \/ \E p \in Pages : ExtractReturns(p)
  \/ \E p \in Pages : RasterRender(p)
  \/ \E p \in Pages : RasterCheck(p)
  \/ \E p \in Pages : PreprocessDone(p)
  \/ \E p \in Pages : OcrAttemptFails(p)
  \/ \E p \in Pages : BackoffDone(p)
  \/ \E p \in Pages : PageCleanupDone(p)
  \/ AllPagesFulfilled
  \/ PromiseAllRejects
  \/ CleanupDone
  \/ CloseWorkerDone

\* calls that send every page through OCR ('always'), with and without a
\* rejecting page promise
InitAlwaysOcr ==
  /\ options \in [concurrency : {1, 2},
                  digitalTextThreshold : {0},
                  ocrFallback : {"always"},
                  progressCallback : {{}, {"Processing"}},
                  debug : BOOLEAN]
  /\ Entered
  /\ decision = NoDecision
  /\ merge = NoMerge
  /\ dirs = NoDirs
  /\ page = NoPage
  /\ resolved = NoResolved
  /\ pool = NoPool
  /\ shared = NoShared

SpecFair == InitAlwaysOcr /\ [][Next]_vars /\ WF_vars(Timely)

\* --------------------------------- the needsOcr expression on its own
InitNeedsOcr ==
  /\ options = [concurrency |-> 0, digitalTextThreshold |-> 0,
                ocrFallback |-> "when-empty", debug |-> FALSE]
  /\ Entered
  /\ decision \in [isDigital : BOOLEAN, textLen : 0..MaxTextLen,
                   threshold : 1..MaxThreshold, ocrFallback : Fallbacks,
                   done : {FALSE}, needsOcr : {FALSE}]
  /\ merge = NoMerge
  /\ dirs = NoDirs
  /\ page = NoPage
  /\ resolved = NoResolved
  /\ pool = NoPool
  /\ shared = NoShared

Decide ==
  /\ ~decision.done
  /\ decision' = [decision EXCEPT
       !.done = TRUE,
       !.needsOcr = needsOcr(decision.isDigital, decision.textLen,
                             decision.threshold, decision.ocrFallback)]
  /\ UNCHANGED <<options, callVars, merge, dirs, page, resolved, pool, shared>>

SpecNeedsOcr == InitNeedsOcr /\ [][Decide]_vars

\* ------------------- the statements after a successful OCR on their own
Repeat(c, n) == [k \in 1..n |-> c]

\* digital texts as extractPageText returns them: short ones and ones longer
\* than the default threshold
DigitalTexts ==
  {Repeat("d", n) : n \in 0..MaxTextLen}
    \cup {Repeat("d", DEFAULT_DIGITAL_TEXT_THRESHOLD + 1),
          Repeat("d", DEFAULT_DIGITAL_TEXT_THRESHOLD + MaxTextLen)}

\* texts as recognize returns them: raw engine output, whitespace included
OcrTexts ==
  {Repeat("o", n) : n \in 0..MaxTextLen}
    \cup {<<" ", "o", "\n">>, <<"o", " ", " ", "o">>,
          Repeat("d", DEFAULT_DIGITAL_TEXT_THRESHOLD + 1),
          Repeat("o", DEFAULT_DIGITAL_TEXT_THRESHOLD + 10)}

InitMerge ==
  /\ options \in [concurrency : {1},
                  digitalTextThreshold : 0..MaxThreshold,
                  ocrFallback : Fallbacks,
                  debug : {FALSE}]
  /\ Entered
  /\ decision = NoDecision
  /\ merge \in [digitalText : DigitalTexts, ocrText : OcrTexts, done : {FALSE},
                pageText : {<<>>}, confidence : {"low"}]
  /\ dirs = NoDirs
  /\ page = NoPage
  /\ resolved = NoResolved
  /\ pool = NoPool
  /\ shared = NoShared

MergeTexts ==
  /\ ~merge.done
  /\ LET chosen == afterOcr(effectiveOptions.ocrFallback, merge.digitalText,
                            merge.ocrText)
     IN merge' = [merge EXCEPT !.done = TRUE, !.pageText = chosen.pageText,
                               !.confidence = chosen.confidence]
  /\ UNCHANGED <<options, callVars, decision, dirs, page, resolved, pool, shared>>

SpecMerge == InitMerge /\ [][MergeTexts]_vars

\* ------------------------------------------- TempFileManager on its own
\* job directory paths; a path is never created, present on disk, or removed
Dirs == 1..MaxDirs

NewDir ==
  [status |-> "never", inflight |-> 0, resolved |-> 0, rejected |-> 0,
   failed |-> 0]

InitTempFiles ==
  /\ options = [concurrency |-> 1, digitalTextThreshold |-> 0,
                ocrFallback |-> "when-empty", debug |-> FALSE]
  /\ Entered
  /\ decision = NoDecision
  /\ merge = NoMerge
  /\ dirs = [d \in Dirs |-> NewDir]
  /\ page = NoPage
  /\ resolved = NoResolved
  /\ pool = NoPool
  /\ shared = NoShared

\* createJobTempDir: fs.ensureDirSync on a fresh path (a new uuid, so no call
\* can have named it before)
CreateJobTempDir(d) ==
  /\ dirs[d] = NewDir
  /\ dirs' = [dirs EXCEPT ![d].status = "present"]
  /\ UNCHANGED <<options, callVars, decision, merge, page, resolved, pool, shared>>

\* cleanupJobTempDir(d) is called: existsSync, then fs.remove is awaited or
\* the call resolves at once
CleanupJobTempDir(d) ==
  /\ dirs[d].inflight + dirs[d].resolved + dirs[d].rejected < MaxCalls
  /\ dirs' = [dirs EXCEPT ![d] =
                IF @.status = "present"
                THEN [@ EXCEPT !.inflight = @ + 1]
                ELSE [@ EXCEPT !.resolved = @ + 1]]
  /\ UNCHANGED <<options, callVars, decision, merge, page, resolved, pool, shared>>

removeFailedRethrows(c) ==
  [c EXCEPT !.inflight = @ - 1, !.rejected = @ + 1, !.failed = @ + 1]

\* catch (error) { this.logger.error(...) }: the call resolves
removeFailed(c) ==
  [c EXCEPT !.inflight = @ - 1, !.resolved = @ + 1, !.failed = @ + 1]

\* fs.remove settles: the directory is gone, or the removal raised an error
\* and left it in place
RemoveSettles(d) ==
  /\ dirs[d].inflight > 0
  /\ \E removedOk \in BOOLEAN :
       dirs' = [dirs EXCEPT ![d] =
                  IF removedOk
                  THEN [@ EXCEPT !.status = "removed", !.inflight = @ - 1,
                                 !.resolved = @ + 1]
                  ELSE removeFailed(@)]
  /\ UNCHANGED <<options, callVars, decision, merge, page, resolved, pool, shared>>

NextTempFiles ==
  \/ \E d \in Dirs : CreateJobTempDir(d)
  \/ \E d \in Dirs : CleanupJobTempDir(d)
  \/ \E d \in Dirs : RemoveSettles(d)

SpecTempFiles == InitTempFiles /\ [][NextTempFiles]_vars

\* --------------------------------------------- extractPageText on its own
\* what a textContent.items entry can be: marked content, a one-character
\* fragment, a four-character fragment
ItemKinds == {MarkedContent, TextItem(<<"a">>), TextItem(<<"w", "x", "y", "z">>)}

ItemLists == UNION {[1..n -> ItemKinds] : n \in 0..MaxItems}

InitPage ==
  /\ options = [concurrency |-> 1, digitalTextThreshold |-> 0,
                ocrFallback |-> "when-empty", debug |-> FALSE]
  /\ Entered
  /\ decision = NoDecision
  /\ merge = NoMerge
  /\ dirs = NoDirs
  /\ page \in [items : ItemLists,
               digitalTextThreshold :
                 0..MaxThreshold \cup {DEFAULT_DIGITAL_TEXT_THRESHOLD},
               done : {FALSE}, text : {<<>>}, isDigital : {FALSE}]
  /\ resolved = NoResolved
  /\ pool = NoPool
  /\ shared = NoShared

ExtractPageText ==
  /\ ~page.done
  /\ LET r == extractPageText(page.items, page.digitalTextThreshold)
     IN page' = [page EXCEPT !.done = TRUE, !.text = r.text,
                             !.isDigital = r.isDigital]
  /\ UNCHANGED <<options, callVars, decision, merge, dirs, resolved, pool, shared>>

SpecPage == InitPage /\ [][ExtractPageText]_vars

\* ------------------------------- the effectiveOptions initializer on its own
\* an optional field: omitted, or supplied with one of the values
Optional(x, values) == {<<>>} \cup {x :> v : v \in values}

CallerOptions ==
  {l @@ c @@ r @@ t @@ f @@ m @@ d :
     l \in Optional("languages", {<<>>, <<"eng", "fra">>}),
     c \in Optional("concurrency", 0..2),
     r \in Optional("dpi", {0, 150}),
     t \in Optional("digitalTextThreshold", 0..MaxThreshold),
     f \in Optional("ocrFallback", Fallbacks),
     m \in Optional("timeoutMs", {0, 1000}),
     d \in Optional("debug", BOOLEAN)}

InitOptions ==
  /\ options \in CallerOptions
  /\ Entered
  /\ decision = NoDecision
  /\ merge = NoMerge
  /\ dirs = NoDirs
  /\ page = NoPage
  /\ resolved = NoResolved
  /\ pool = NoPool
  /\ shared = NoShared

ResolveOptions ==
  /\ ~resolved.done
  /\ resolved' = [done |-> TRUE, effectiveOptions |-> effectiveOptions]
  /\ UNCHANGED <<options, callVars, decision, merge, dirs, page, pool, shared>>

SpecOptions == InitOptions /\ [][ResolveOptions]_vars

\* ------------------------------------ recognize invocations of a call
\* The page jobs of one call as the adapter sees them: the pool admits a job,
\* the job reaches runOcrWithRetries or ends without it, every attempt races
\* recognize against a timer, and the loser of the race is not cancelled.
PoolJob(st, i) == [st |-> st, i |-> i]

InitPool ==
  /\ options \in [concurrency : {1, 2}]
  /\ Entered
  /\ decision = NoDecision
  /\ merge = NoMerge
  /\ dirs = NoDirs
  /\ page = NoPage
  /\ resolved = NoResolved
  /\ \E n \in 1..MaxPages :
       pool = [concurrency |-> effectiveOptions.concurrency,
               attempts |-> [p \in 1..n |-> PoolJob("queued", 0)],
               abandoned |-> 0, settled |-> FALSE]
  /\ shared = NoShared

PoolActive ==
  Cardinality({p \in DOMAIN pool.attempts :
                 pool.attempts[p].st \in {"racing", "backoff"}})

\* recognize invocations started and not yet settled: those being raced and
\* those whose race the timer won
RecognizeInFlight ==
  Cardinality({p \in DOMAIN pool.attempts : pool.attempts[p].st = "racing"})
    + pool.abandoned

\* limit(async () => ...): the oldest queued job starts when a slot is free;
\* it ends without OCR or makes the first recognize call
PoolJobStart(p) ==
  /\ p \in DOMAIN pool.attempts
  /\ pool.attempts[p].st = "queued"
  /\ \A q \in DOMAIN pool.attempts : q < p => pool.attempts[q].st # "queued"
  /\ limitAllows(PoolActive, pool.concurrency)
  /\ \E st \in {"racing", "done"} :
       pool' = [pool EXCEPT !.attempts[p] = PoolJob(st, 0)]
  /\ UNCHANGED <<options, callVars, decision, merge, dirs, page, resolved, shared>>

\* catch (error): rethrow after the last attempt, back off otherwise
AttemptFailed(p) ==
  IF lastAttempt(pool.attempts[p].i) THEN PoolJob("done", pool.attempts[p].i)
  ELSE PoolJob("backoff", pool.attempts[p].i)

\* recognize settles first: the race resolves or rejects with it
RecognizeSettles(p) ==
  /\ p \in DOMAIN pool.attempts
  /\ pool.attempts[p].st = "racing"
  /\ \E ok \in BOOLEAN :
       pool' = [pool EXCEPT !.attempts[p] =
                  IF ok THEN PoolJob("done", pool.attempts[p].i)
                  ELSE AttemptFailed(p)]
  /\ UNCHANGED <<options, callVars, decision, merge, dirs, page, resolved, shared>>

\* the timer fires first: the race rejects, the recognize call goes on
TimeoutWins(p) ==
  /\ p \in DOMAIN pool.attempts
  /\ pool.attempts[p].st = "racing"
  /\ pool' = [pool EXCEPT !.attempts[p] = AttemptFailed(p),
                          !.abandoned = @ + 1]
  /\ UNCHANGED <<options, callVars, decision, merge, dirs, page, resolved, shared>>

\* the backoff timer fires: i++ and the next recognize call
NextAttempt(p) ==
  /\ p \in DOMAIN pool.attempts
  /\ pool.attempts[p].st = "backoff"
  /\ pool' = [pool EXCEPT !.attempts[p] = PoolJob("racing", pool.attempts[p].i + 1)]
  /\ UNCHANGED <<options, callVars, decision, merge, dirs, page, resolved, shared>>

\* a recognize call that lost its race settles; nothing awaits it
AbandonedSettles ==
  /\ pool.abandoned > 0
  /\ pool' = [pool EXCEPT !.abandoned = @ - 1]
  /\ UNCHANGED <<options, callVars, decision, merge, dirs, page, resolved, shared>>

\* Promise.all resolves once every page job has ended; extractFromFile goes
\* through its finally block and settles
PoolSettles ==
  /\ ~pool.settled
  /\ \A p \in DOMAIN pool.attempts : pool.attempts[p].st = "done"
  /\ pool' = [pool EXCEPT !.settled = TRUE]
  /\ UNCHANGED <<options, callVars, decision, merge, dirs, page, resolved, shared>>

NextPool ==
  \/ \E p \in Pages : PoolJobStart(p)
  \/ \E p \in Pages : RecognizeSettles(p)
  \/ \E p \in Pages : TimeoutWins(p)
  \/ \E p \in Pages : NextAttempt(p)
  \/ AbandonedSettles
  \/ PoolSettles

SpecPool == InitPool /\ [][NextPool]_vars

\* ------------------------------------- two calls on one OcrService
\* OcrService holds one ocrAdapter for all its calls.  Of each call: where it
\* is, how many of its pages still have to reach recognize, and how many of
\* its recognize invocations are in flight.
Callers == {1, 2}

InitShared ==
  /\ options \in [concurrency : {1, 2}]
  /\ Entered
  /\ decision = NoDecision
  /\ merge = NoMerge
  /\ dirs = NoDirs
  /\ page = NoPage
  /\ resolved = NoResolved
  /\ pool = NoPool
  /\ shared = [c \in Callers |-> [pc |-> "idle", waiting |-> 0, recognizing |-> 0]]

\* extractFromFile is called: getNumPages resolves and the page jobs are queued
CallBegins(c) ==
  /\ shared[c].pc = "idle"
  /\ \E n \in 1..MaxPages :
       shared' = [shared EXCEPT ![c] = [pc |-> "pages", waiting |-> n,
                                        recognizing |-> 0]]
  /\ UNCHANGED <<options, callVars, decision, merge, dirs, page, resolved, pool>>

\* a page job of call c, admitted by the call's own pool, calls
\* this.ocrAdapter.recognize
CallRecognizes(c) ==
  /\ shared[c].pc = "pages"
  /\ shared[c].waiting > 0
  /\ limitAllows(shared[c].recognizing, effectiveOptions.concurrency)
  /\ shared' = [shared EXCEPT ![c].waiting = @ - 1, ![c].recognizing = @ + 1]
  /\ UNCHANGED <<options, callVars, decision, merge, dirs, page, resolved, pool>>

\* runOcrWithRetries of a page of call c is over
CallRecognized(c) ==
  /\ shared[c].recognizing > 0
  /\ shared' = [shared EXCEPT ![c].recognizing = @ - 1]
  /\ UNCHANGED <<options, callVars, decision, merge, dirs, page, resolved, pool>>

\* the page jobs of call c are over: its finally block calls
\* this.ocrAdapter.closeWorker()
CallClosesWorker(c) ==
  /\ shared[c].pc = "pages"
  /\ shared[c].waiting = 0
  /\ shared[c].recognizing = 0
  /\ shared' = [shared EXCEPT ![c].pc = "closeWorker"]
  /\ UNCHANGED <<options, callVars, decision, merge, dirs, page, resolved, pool>>

\* closeWorker resolves and call c settles
CallSettles(c) ==
  /\ shared[c].pc = "closeWorker"
  /\ shared' = [shared EXCEPT ![c].pc = "settled"]
  /\ UNCHANGED <<options, callVars, decision, merge, dirs, page, resolved, pool>>

NextShared ==
  \/ \E c \in Callers : CallBegins(c)
  \/ \E c \in Callers : CallRecognizes(c)
  \/ \E c \in Callers : CallRecognized(c)
  \/ \E c \in Callers : CallClosesWorker(c)
  \/ \E c \in Callers : CallSettles(c)

SpecShared == InitShared /\ [][NextShared]_vars

\* ============================================================ claims
Settled == call.pc = "settled"
Returned == Settled /\ call.completion = "return"

\* the ExtractResult object of the return statement; pages and errors are
\* the results and errors arrays themselves
ExtractResult ==
  [numPages |-> numPages, pages |-> results, fullText |-> ret.fullText,
   errors |-> errors, stats |-> ret.stats]

FailedPages == {errors[k].page : k \in DOMAIN errors} \ {0}

StageOrigins ==
  {"extractPageText", "pdfToCairo", "rasterizePageToImage", "preprocessImage",
   "recognize", "timeout"}

\* C1: every returned ExtractResult has pages.length = numPages and
\* pages[i].pageNumber = i + 1, whatever pages failed and in whatever order
\* the jobs completed.
C1_PagesDense ==
  Returned =>
    /\ Len(ExtractResult.pages) = ExtractResult.numPages
    /\ \A k \in DOMAIN ExtractResult.pages :
         ExtractResult.pages[k].pageNumber = k

\* C2: every returned ExtractResult has
\* stats.digitalPages + stats.scannedPages = numPages, also when pages fail.
C2_ClassificationPartition ==
  Returned =>
    ExtractResult.stats.digitalPages + ExtractResult.stats.scannedPages
      = ExtractResult.numPages

\* C3: in every returned ExtractResult a PageResult with ocrUsed = false has
\* ocrConfidence = null, under every fallback policy and for failed pages.
C3_NoOcrNoConfidence ==
  Returned =>
    \A k \in DOMAIN ExtractResult.pages :
      ~ExtractResult.pages[k].ocrUsed =>
        ExtractResult.pages[k].ocrConfidence = Null

C3_Witness ==
  /\ Returned
  /\ FailedPages # {}
  /\ \E k \in DOMAIN results : results[k].ocrUsed /\ results[k].ocrConfidence # Null
  /\ \E k \in DOMAIN results : ~results[k].ocrUsed

\* C4: needsOcr follows the decision table: false only for a digital page
\* under 'when-empty', true for the other five combinations, for every text
\* length and threshold.
DecisionTable(isDigital, ocrFallback) ==
  ~(isDigital /\ ocrFallback = "when-empty")

C4_DecisionTable ==
  decision.done =>
    decision.needsOcr = DecisionTable(decision.isDigital, decision.ocrFallback)

C4_Witness ==
  /\ decision.done
  /\ decision.isDigital
  /\ decision.ocrFallback = "prefer-longer"
  /\ decision.textLen >= decision.threshold
  /\ decision.needsOcr

\* C5: at no point are more than k = effective concurrency page jobs between
\* their start and their end.
C5_ConcurrencyBound == activeCount <= effectiveOptions.concurrency

C5_Witness ==
  /\ activeCount = effectiveOptions.concurrency
  /\ \E p \in Pages : job[p].st = "queued"

\* C6: when extractFromFile settles, cleanupJobTempDir has been invoked
\* exactly once if debug is not set and never if debug is set, however many
\* pages needed OCR.
C6_CleanupExactlyOnce ==
  Settled =>
    calls.cleanupJobTempDir = (IF effectiveOptions.debug THEN 0 ELSE 1)

\* C7: runOcrWithRetries makes at most retries + 1 recognize calls, one after
\* the other; a failed or timed-out attempt before the last one is followed by
\* the next attempt, a successful attempt ends the loop, and only the last
\* attempt's error is thrown.
C7_AttemptsBounded ==
  \A p \in Pages :
    /\ job[p].st \in {"ocr", "backoff"} => job[p].i \in 0..retries
    /\ job[p].st = "backoff" => job[p].i < retries
    /\ job[p].error.origin \in {"recognize", "timeout"} =>
         job[p].error.attempt = retries

C7_ErrorsOfLastAttempt ==
  \A k \in DOMAIN errors :
    errors[k].message.origin \in {"recognize", "timeout"} =>
      errors[k].message.attempt = retries

C7_Step ==
  \A p \in Pages :
    /\ (job[p].st # "ocr" /\ job'[p].st = "ocr") =>
         \/ job[p].st = "preproc" /\ job'[p].i = 0
         \/ job[p].st = "backoff" /\ job'[p].i = job[p].i + 1
    /\ (job[p].st = "ocr" /\ job'[p].st = "backoff") => job'[p].i = job[p].i
    /\ job[p].st \in {"pcleanup", "done", "rejected"} =>
         job'[p].st \notin {"ocr", "backoff"}

C7_RetryLoop ==
  /\ [](C7_AttemptsBounded /\ C7_ErrorsOfLastAttempt)
  /\ [][C7_Step]_vars

C7_Witness ==
  /\ \E k \in DOMAIN errors :
       errors[k].message = Error("timeout", retries)
  /\ \E k \in DOMAIN results : results[k].ocrUsed

\* C8: once getNumPages has succeeded, the failure of a page stage never makes
\* extractFromFile throw, every page still gets its PageResult, and a page that
\* did not fail carries the text that its own digital and OCR texts determine.
OwnText(j, text) ==
  IF ~j.needsOcr THEN text = j.digitalText
  ELSE IF effectiveOptions.ocrFallback = "prefer-longer"
       THEN text \in {CleanText(j.digitalText), CleanText(j.ocrText)}
       ELSE text = j.ocrText

C9_Fatal ==
  call.thrown.origin = "getNumPages" =>
    /\ call.completion = "throw"
    /\ ret = NoResult
    /\ \A p \in Pages : job[p].st = "none"

C9_Step ==
  (call.pc = "getNumPages" /\ call'.pc # "getNumPages" /\ numPages' = 0) =>
    /\ call'.completion = "throw"
    /\ call'.thrown = Error("getNumPages", 0)

C9_FatalShortCircuits == []C9_Fatal /\ [][C9_Step]_vars

C9_Witness == Settled /\ call.thrown = Error("getNumPages", 0)

\* C10: in every returned ExtractResult the pages are in ascending pageNumber
\* order and fullText is their text fields joined with "\n\n"; a failed page
\* has an entry with the empty string.
RECURSIVE TextsJoined(_, _)
TextsJoined(pages, k) ==
  IF k = 0 THEN <<>>
  ELSE IF k = 1 THEN pages[1].text
       ELSE TextsJoined(pages, k - 1) \o <<"\n", "\n">> \o pages[k].text

C11_CallbackSwallowed ==
  /\ call.thrown # CallbackError
  /\ \A p \in Pages : job[p].error # CallbackError
  /\ \A k \in DOMAIN errors : errors[k].message # CallbackError

\* C12: within one extractFromFile call, for each page number p in
\* 1..numPages, the percent values of the events emitted with page = p never
\* decrease in emission order, on the digital path, on the OCR path and up to
\* the final 'Finished' event.
PercentLeq(a, b) == a.num * b.den <= b.num * a.den

C12_PercentMonotone ==
  [][\A p \in Pages :
       progress'[p] # progress[p] =>
         PercentLeq(progress[p].percent, progress'[p].percent)]_vars

C12_Witness ==
  /\ Returned
  /\ numPages = 2
  /\ progress[2].step = "Finished"
  /\ progress[1].step = "Completed"
  /\ \E k \in DOMAIN results : results[k].pageNumber = 2 /\ results[k].ocrUsed
  /\ \E k \in DOMAIN results : results[k].pageNumber = 1 /\ ~results[k].ocrUsed

\* C13: under 'prefer-longer', after a successful OCR the page text is the
\* digital text if and only if the cleaned digital text is longer than 0.8
\* times the cleaned OCR text and longer than the effective
\* digitalTextThreshold of the call; otherwise it is the OCR text.
C13_PreferLonger ==
  (merge.done /\ effectiveOptions.ocrFallback = "prefer-longer") =>
    LET cleanDigital == CleanText(merge.digitalText)
        cleanOcr == CleanText(merge.ocrText)
    IN IF /\ 10 * Len(cleanDigital) > 8 * Len(cleanOcr)
          /\ Len(cleanDigital) > effectiveOptions.digitalTextThreshold
       THEN merge.pageText \in {merge.digitalText, cleanDigital}
       ELSE merge.pageText \in {merge.ocrText, cleanOcr}

\* C14: under 'prefer-longer', for every pair of digital and OCR text the
\* confidence label is 'high' exactly when the merge rule chose the digital
\* text and 'ocr' exactly when it chose the OCR text.
DigitalChosen ==
  /\ 10 * Len(CleanText(merge.digitalText)) > 8 * Len(CleanText(merge.ocrText))
  /\ Len(CleanText(merge.digitalText)) > DEFAULT_DIGITAL_TEXT_THRESHOLD

C14_ConfidenceFollowsChoice ==
  (merge.done /\ effectiveOptions.ocrFallback = "prefer-longer") =>
    merge.confidence = (IF DigitalChosen THEN "high" ELSE "ocr")

\* C15: the job temp directory exists before any page job starts and is
\* removed only after every page job of the call has finished: it is never
\* absent while a page job is queued or running.
C15_DirOutlivesJobs ==
  ~fs.dirExists => \A p \in Pages : job[p].st \notin Running \cup {"queued"}

\* C16: on every exit path of extractFromFile (success, partial page failure,
\* fatal getNumPages error), with debug set or not, closeWorker has been
\* invoked when the call settles, and it is invoked only once the job temp
\* directory cleanup step of the finally block is over.
C16_Closed == Settled => calls.closeWorker = 1

C16_Step ==
  calls'.closeWorker # calls.closeWorker =>
    /\ calls'.closeWorker = calls.closeWorker + 1
    /\ call'.pc = "closeWorker"
    /\ IF effectiveOptions.debug
       THEN calls.cleanupJobTempDir = 0 /\ call.pc # "cleanup"
       ELSE call.pc = "cleanup" /\ calls.cleanupJobTempDir >= 1

C16_CloseWorkerAfterCleanup == []C16_Closed /\ [][C16_Step]_vars

C16_Witness ==
  /\ Returned
  /\ ~effectiveOptions.debug
  /\ FailedPages # {}
  /\ Len(results) > Cardinality(FailedPages)
  /\ calls.closeWorker = 1
  /\ ~fs.dirExists

\* C17: cleanupJobTempDir never fails and is idempotent: every call on a
\* path that exists, was already removed or was never created resolves, also
\* when the removal raises an error; a call on an absent path changes nothing
\* on disk, and once a call has resolved with no removal error the directory
\* is absent.
C17_NeverRejects ==
  \A d \in Dirs :
    /\ dirs[d].rejected = 0
    /\ (dirs[d].resolved >= 1 /\ dirs[d].failed = 0) =>
         dirs[d].status # "present"

C17_Step ==
  \A d \in Dirs :
    /\ (dirs[d].status # "present" /\ dirs'[d].status # "present"
          /\ dirs'[d].inflight = dirs[d].inflight /\ dirs'[d] # dirs[d]) =>
         dirs'[d] = [dirs[d] EXCEPT !.resolved = @ + 1]
    /\ dirs[d].status = "removed" => dirs'[d].status = "removed"

RasterizationFailed(p) ==
  LET e == Error("rasterizePageToImage", 0)
  IN \/ job'[p].error = e /\ job'[p].st = "pcleanup"
     \/ job'[p].st = "done" /\ errors' = Append(errors, ExtractError(p, e))

C18_Step ==
  \A p \in Pages :
    /\ (job[p].st = "rcheck" /\ job'[p] # job[p]) =>
         IF p \in fs.raster
         THEN /\ ~RasterizationFailed(p)
              /\ job'[p].st = "preproc" \/ job'[p].error = CallbackError
                   \/ errors' = Append(errors, ExtractError(p, CallbackError))
         ELSE RasterizationFailed(p)
    /\ (job[p].st # "preproc" /\ job'[p].st = "preproc") =>
         job[p].st = "rcheck" /\ p \in fs.raster

C18_MissingImageFails == [][C18_Step]_vars

C18_Witness ==
  /\ Returned
  /\ \E k \in DOMAIN errors :
       errors[k].message = Error("rasterizePageToImage", 0)
  /\ \E k \in DOMAIN results : results[k].ocrUsed

\* C19: for every page content and threshold, extractPageText returns
\* isDigital = true if and only if the total character count of the text
\* fragments is at least digitalTextThreshold, or there are more than 4 text
\* fragments and their total length exceeds 3 times their number.
C19_IsDigitalHeuristic ==
  page.done =>
    (page.isDigital <=>
       \/ TotalTokenLength(page.items) >= page.digitalTextThreshold
       \/ /\ TokenCount(page.items) > 4
          /\ TotalTokenLength(page.items) > 3 * TokenCount(page.items))

\* C20: the effective options take every value the caller supplied, 0
\* included, and the default (languages [eng], concurrency 4, dpi 300,
\* digitalTextThreshold 20, ocrFallback when-empty, timeoutMs 120000, debug
\* false) only for the options the caller omitted.
Defaults ==
  [languages |-> <<"eng">>, concurrency |-> 4, dpi |-> 300,
   digitalTextThreshold |-> 20, ocrFallback |-> "when-empty",
   timeoutMs |-> 120000, debug |-> FALSE]

C20_SuppliedOverDefaults ==
  resolved.done =>
    \A x \in DOMAIN Defaults :
      resolved.effectiveOptions[x]
        = (IF x \in DOMAIN options THEN options[x] ELSE Defaults[x])

\* C21: in every returned ExtractResult the errors array has exactly one
\* entry for every failed page and none for a page that succeeded, every entry
\* names a page in 1..numPages, and every PageResult of a failed page is the
\* empty one: text "", charCount 0, isDigital false, ocrUsed false,
\* ocrConfidence null, confidence 'low'.
ErrorsOf(p) == {k \in DOMAIN errors : errors[k].page = p}
ResultsOf(p) == {k \in DOMAIN results : results[k].pageNumber = p}

C21_ErrorsMatchFailures ==
  Returned =>
    /\ \A k \in DOMAIN ExtractResult.errors :
         ExtractResult.errors[k].page \in 1..ExtractResult.numPages
    /\ \A p \in 1..numPages :
         /\ Cardinality(ErrorsOf(p)) = (IF job[p] = Ended THEN 1 ELSE 0)
         /\ p \in FailedPages =>
              \A k \in ResultsOf(p) : ExtractResult.pages[k] = FailedResult(p)

\* C27: every page job appends exactly one PageResult and at most one
\* ExtractError: never two PageResults for one page, whatever the outcome of
\* the job, a progressCallback that throws at 'Completed' included.
C27_OneResultPerJob ==
  \A p \in Pages :
    /\ Cardinality(ResultsOf(p)) <= 1
    /\ Cardinality(ErrorsOf(p)) <= 1
    /\ job[p].st = "done" => Cardinality(ResultsOf(p)) = 1

\* C22: under 'when-empty' a digital page (needsOcr false) never reaches
\* rasterizePageToImage, preprocessImage or recognize; its PageResult carries
\* the digital text unchanged with ocrUsed false, ocrConfidence null and
\* confidence 'high'; it is counted in digitalPages and not in pagesOcrd, and a
\* document of digital pages only returns pagesOcrd = 0.
OcrStages == {"raster", "rcheck", "preproc", "ocr", "backoff"}

DigitalTextsOf(threshold) ==
  {extractPageText(items, threshold).text : items \in PageContents}

DigitalPagesSeen ==
  {p \in Pages : \E k \in ResultsOf(p) : results[k].isDigital}

C22_DigitalSkipsOcr ==
  effectiveOptions.ocrFallback = "when-empty" =>
    /\ \A p \in Pages : job[p].st \in OcrStages => ~job[p].isDigital
    /\ \A k \in DOMAIN results :
         results[k].isDigital =>
           /\ ~results[k].ocrUsed
           /\ results[k].ocrConfidence = Null
           /\ results[k].confidence = "high"
           /\ results[k].text
                \in DigitalTextsOf(effectiveOptions.digitalTextThreshold)
           /\ results[k].charCount = Len(results[k].text)
           /\ job[results[k].pageNumber] \notin {NewJob, Ended} =>
                results[k].text = job[results[k].pageNumber].digitalText
    /\ counters.digitalPages = Cardinality(DigitalPagesSeen)
    /\ counters.pagesOcrd + counters.digitalPages <= numPages
    /\ (Returned /\ DigitalPagesSeen = 1..numPages) =>
         /\ ExtractResult.stats.pagesOcrd = 0
         /\ ExtractResult.stats.digitalPages = numPages
         /\ fs.raster = {}

C22_Witness ==
  /\ Returned
  /\ effectiveOptions.ocrFallback = "when-empty"
  /\ numPages = 2
  /\ DigitalPagesSeen = {1, 2}
  /\ errors = <<>>
  /\ ret.stats.pagesOcrd = 0
  /\ results[1].text # <<>>

\* C23: for a page that needs OCR the stages start in the order
\* extractPageText, rasterizePageToImage, preprocessImage, recognize, each
\* only from the successful end of the one before it; extraction,
\* rasterization and preprocessing start at most once per page, and no stage
\* starts once a stage of the page has failed or the page job has ended.
C23_NoStageWithError ==
  \A p \in Pages :
    job[p].st \in OcrStages \cup {"queued", "extract"} => job[p].error = NoError

C23_Step ==
  \A p \in Pages :
    job'[p].st # job[p].st =>
      /\ job'[p].st = "queued" => job[p].st = "none"
      /\ job'[p].st = "extract" => job[p].st = "queued"
      /\ job'[p].st = "raster" => job[p].st = "extract" /\ job'[p].needsOcr
      /\ job'[p].st = "rcheck" => job[p].st = "raster"
      /\ job'[p].st = "preproc" => job[p].st = "rcheck" /\ p \in fs.raster
      /\ job'[p].st = "ocr" => job[p].st \in {"preproc", "backoff"}
      /\ job'[p].st = "backoff" => job[p].st = "ocr"
      /\ job[p].st \in {"pcleanup", "done", "rejected"} =>
           job'[p].st \in {"done"}
      /\ job'[p].st # "none"

C23_StagesInOrder == []C23_NoStageWithError /\ [][C23_Step]_vars

C23_Witness ==
  \E p, q \in Pages :
    /\ job[p].st = "ocr" /\ job[p].i = 1 /\ p \in fs.raster
    /\ job[q] = Ended
    /\ \E k \in ErrorsOf(q) : errors[k].message = Error("preprocessImage", 0)

\* C25: with debug unset and a concurrency of at least 2, the rasterized
\* image of a page stays in the job temp directory from the moment it was
\* written until the page's own preprocessing and OCR are over: the cleanup of
\* one page never removes the image of a page that is still running.
C25_ImageOutlivesStages ==
  (~effectiveOptions.debug /\ effectiveOptions.concurrency >= 2) =>
    \A p \in Pages : job[p].st \in {"preproc", "ocr", "backoff"} => p \in fs.raster

\* C26: in every returned ExtractResult stats.pagesOcrd = stats.scannedPages
\* = the number of pages that entered the OCR branch; this number is at least
\* the number of PageResults with ocrUsed = true, and equal to it exactly when
\* no page failed after entering the OCR branch.
OcrUsedResults == {k \in DOMAIN results : results[k].ocrUsed}

\* the pages whose errors entry was pushed after the page entered the OCR
\* branch: a stage of the branch failed, a callback of the branch threw, or
\* 'Completed' threw after a successful OCR
FailedInOcrBranch ==
  {p \in FailedPages :
     \E k \in ErrorsOf(p) :
       \/ errors[k].message.origin \in StageOrigins \ {"extractPageText"}
       \/ /\ errors[k].message = CallbackError
          /\ \/ effectiveOptions.progressCallback
                  \subseteq {"Rasterizing for OCR", "Preprocessing Image",
                             "Running OCR"}
             \/ \E r \in ResultsOf(p) : results[r].ocrUsed}

C26_OcrCounters ==
  Returned =>
    /\ ExtractResult.stats.pagesOcrd = ExtractResult.stats.scannedPages
    /\ ExtractResult.stats.pagesOcrd
         = Cardinality(FailedInOcrBranch
                         \cup {results[k].pageNumber : k \in OcrUsedResults})
    /\ ExtractResult.stats.pagesOcrd >= Cardinality(OcrUsedResults)
    /\ (ExtractResult.stats.pagesOcrd = Cardinality(OcrUsedResults))
         <=> (FailedInOcrBranch = {})

\* C28: when extractFromFile settles, no work of the call is still in flight:
\* no page job is queued or running and no recognize invocation is pending.
C28_NothingInFlight ==
  /\ Settled => \A p \in Pages : job[p].st \notin Running \cup {"queued"}
  /\ pool.settled =>
       /\ \A p \in DOMAIN pool.attempts : pool.attempts[p].st = "done"
       /\ RecognizeInFlight = 0

\* C29: if getNumPages, extractPageText, rasterizePageToImage,
\* preprocessImage and cleanupJobTempDir each eventually return or throw, every
\* extractFromFile call eventually settles, also when recognize never
\* completes: each attempt is ended by its timeout, a page makes at most
\* retries + 1 attempts and then fails as a page-level error.
C29_Settles == <>Settled

C29_Termination ==
  /\ C29_Settles
  /\ [](\A p \in Pages : job[p].st \in {"ocr", "backoff"} => job[p].i <= retries)
  /\ [](\A k \in DOMAIN errors :
          errors[k].message.origin = "timeout" =>
            /\ errors[k].page \in 1..numPages
            /\ errors[k].message.attempt = retries)

C29_Witness ==
  /\ Returned
  /\ numPages = 2
  /\ \A p \in 1..2 :
       \E k \in ErrorsOf(p) : errors[k].message = Error("timeout", retries)
  /\ \A k \in DOMAIN results : ~results[k].ocrUsed

\* C24: the number of ocrAdapter.recognize invocations of a call that have
\* started and not yet completed never exceeds the call's concurrency k, the
\* invocations abandoned by the timeout race and then retried included.
C24_RecognizeBound == RecognizeInFlight <= pool.concurrency

\* C30: with two extractFromFile calls running on the same OcrService,
\* closeWorker is never invoked by one call while the other still has a
\* recognize invocation in flight or page jobs that have not yet run OCR.
C30_CloseWorkerWhenIdle ==
  \A c, d \in DOMAIN shared :
    (c # d /\ shared[c].pc = "closeWorker") =>
      ~(shared[d].pc = "pages"
          /\ (shared[d].recognizing > 0 \/ shared[d].waiting > 0))

====
